---- MODULE Spec2Model ----
(***************************************************************************)
(* Koppen-Geiger classification of WorldClim cells (src/classify.py).      *)
(*                                                                         *)
(* Five state machines share the variables below:                          *)
(*   Spec          one call of koppenGeigerClassify on one cell            *)
(*   BatchSpec     one call of concurrentClassification on one table       *)
(*   ChunkSpec     one call of computeChunk on one chunk                   *)
(*   RegionalSpec  one call of computeRegionalClassification               *)
(*   AssembleSpec  the pivot and the row reversal that end it, on a table  *)
(*                                                                         *)
(* Numbers are Python floats in the source.  The model keeps integers and  *)
(* one value NaN; every comparison and every arithmetic operation goes     *)
(* through the F* operators, which follow IEEE-754: an operation with a    *)
(* NaN operand yields NaN and a comparison with a NaN operand is False.    *)
(* Divisions by a constant are removed by cross-multiplication             *)
(* (x < y / 3 is 3 * x < y), which is exact on the integers used here.     *)
(***************************************************************************)
EXTENDS Integers, Sequences, FiniteSets, TLC

VARIABLES
    \* arguments of koppenGeigerClassify
    bioVarSeries, tavgSeries, precSeries, north_hemisphere,
    \* its locals
    m_a_t, m_a_p, p_min, t_max, t_min, t_above_10,
    p_thresh, p_w_min, p_w_max, p_s_min, p_s_max,
    koppenClass,
    \* its position and its return value
    pc, result,
    \* arguments, locals, position and outcome of concurrentClassification
    data, num_chunks, thread_count, chunk_size, chunks,
    executor, classified_data, bpc, raised,
    \* argument, position and result of computeChunk
    chunk, rowNo, applied,
    \* argument, locals, position and result of computeRegionalClassification,
    \* the data directory with its state at the call, and the downloads and
    \* extractions made so far
    resolution, message, fs, fs0, fileNo, ops, geoData, classification, rpc

cellVars == <<bioVarSeries, tavgSeries, precSeries, north_hemisphere>>
localVars == <<m_a_t, m_a_p, p_min, t_max, t_min, t_above_10,
               p_thresh, p_w_min, p_w_max, p_s_min, p_s_max, koppenClass>>
classifyVars == <<cellVars, localVars, pc, result>>
batchVars == <<data, num_chunks, thread_count, chunk_size, chunks,
               executor, classified_data, bpc, raised>>
chunkVars == <<chunk, rowNo, applied>>
regionVars == <<resolution, message, fs, fs0, fileNo, ops, geoData, classification, rpc>>
vars == <<classifyVars, batchVars, chunkVars, regionVars>>

-----------------------------------------------------------------------------
(* Floats *)

\* np.nan, the value readGeoData puts in place of the raster's nodata value.
\* It lies outside every range of numbers the model computes.
NaN == -1000000

IsNaN(x) == x = NaN

FAdd(a, b) == IF IsNaN(a) \/ IsNaN(b) THEN NaN ELSE a + b
FSub(a, b) == IF IsNaN(a) \/ IsNaN(b) THEN NaN ELSE a - b
FMul(a, b) == IF IsNaN(a) \/ IsNaN(b) THEN NaN ELSE a * b
FLt(a, b) == ~IsNaN(a) /\ ~IsNaN(b) /\ a < b
FLe(a, b) == ~IsNaN(a) /\ ~IsNaN(b) /\ a <= b
FGt(a, b) == ~IsNaN(a) /\ ~IsNaN(b) /\ a > b
FGe(a, b) == ~IsNaN(a) /\ ~IsNaN(b) /\ a >= b

\* x / 12 for the annual precipitation; the cells of the model carry
\* multiples of 12, so the quotient is exact.
FDiv12(a) == IF IsNaN(a) THEN NaN ELSE a \div 12

\* s[start:stop], 0-based and half-open, clipped to the length as Python does.
PySlice(s, start, stop) ==
    LET hi == IF stop < Len(s) THEN stop ELSE Len(s)
    IN  IF start >= hi THEN <<>> ELSE SubSeq(s, start + 1, hi)

HasNaN(s) == \E i \in DOMAIN s : IsNaN(s[i])

RECURSIVE SumInts(_)
SumInts(s) == IF s = <<>> THEN 0 ELSE Head(s) + SumInts(Tail(s))

\* ndarray.sum(), ndarray.min(), ndarray.max(): NaN if any element is NaN.
NpSum(s) == IF HasNaN(s) THEN NaN ELSE SumInts(s)
NpMin(s) == IF HasNaN(s) THEN NaN
            ELSE CHOOSE v \in {s[i] : i \in DOMAIN s} :
                     \A i \in DOMAIN s : v <= s[i]
NpMax(s) == IF HasNaN(s) THEN NaN
            ELSE CHOOSE v \in {s[i] : i \in DOMAIN s} :
                     \A i \in DOMAIN s : v >= s[i]

-----------------------------------------------------------------------------
(* The code table *)

\* KOPPEN_DICT of src/constants.py, the module classify.py imports.
KOPPEN_DICT ==
    ("Af" :> 1) @@ ("Am" :> 2) @@ ("Aw" :> 3) @@
    ("BWh" :> 4) @@ ("BWk" :> 5) @@ ("BSh" :> 6) @@ ("BSk" :> 7) @@
    ("Csa" :> 8) @@ ("Csb" :> 9) @@ ("Csc" :> 10) @@
    ("Cwa" :> 11) @@ ("Cwb" :> 12) @@ ("Cwc" :> 13) @@
    ("Cfa" :> 14) @@ ("Cfb" :> 15) @@ ("Cfc" :> 16) @@
    ("Dsa" :> 17) @@ ("Dsb" :> 18) @@ ("Dsc" :> 19) @@ ("Dsd" :> 20) @@
    ("Dwa" :> 21) @@ ("Dwb" :> 22) @@ ("Dwc" :> 23) @@ ("Dwd" :> 24) @@
    ("Dfa" :> 25) @@ ("Dfb" :> 26) @@ ("Dfc" :> 27) @@ ("Dfd" :> 28) @@
    ("ET" :> 29) @@ ("EF" :> 30)

\* A lookup that lets an unknown key through as -1 instead of 0.
KoppenGetNoDefault(k) == IF k \in DOMAIN KOPPEN_DICT THEN KOPPEN_DICT[k] ELSE -1

\* KOPPEN_DICT.get(koppenClass, 0)
KoppenGet(k) == IF k \in DOMAIN KOPPEN_DICT THEN KOPPEN_DICT[k] ELSE 0

-----------------------------------------------------------------------------
(* koppenGeigerClassify *)

\* The two arrays the function builds from its monthly arguments: precArray
\* is built from tavgSeries and tempArray from precSeries.
precArray == tavgSeries
tempArray == precSeries

\* The months 4..9 and the months 1..3 with 10..12 of an array.
MidYear(arr) == PySlice(arr, 3, 9)
YearEnds(arr) == PySlice(arr, 0, 3) \o PySlice(arr, 9, 12)

\* The loop over tempArray: the number of its entries greater than 10.
TAbove10(arr) == Cardinality({i \in DOMAIN arr : FGt(arr[i], 10)})

\* sum > 0.7 * m_a_p
Over70(sum, map) == FGt(FMul(10, sum), FMul(7, map))

\* The same choice with the summer window tested before the winter window
\* in the Northern Hemisphere.
PThreshSummerFirst(north, arr, mat, map) ==
    IF ~north
    THEN IF Over70(NpSum(MidYear(arr)), map) THEN FMul(2, mat)
         ELSE IF Over70(NpSum(YearEnds(arr)), map) THEN FAdd(FMul(2, mat), 28)
         ELSE FAdd(FMul(2, mat), 14)
    ELSE IF Over70(NpSum(MidYear(arr)), map) THEN FAdd(FMul(2, mat), 28)
         ELSE IF Over70(NpSum(YearEnds(arr)), map) THEN FMul(2, mat)
         ELSE FAdd(FMul(2, mat), 14)

\* p_thresh: in both hemispheres the winter window is tested first.
PThresh(north, arr, mat, map) ==
    IF ~north
    THEN IF Over70(NpSum(MidYear(arr)), map) THEN FMul(2, mat)
         ELSE IF Over70(NpSum(YearEnds(arr)), map) THEN FAdd(FMul(2, mat), 28)
         ELSE FAdd(FMul(2, mat), 14)
    ELSE IF Over70(NpSum(YearEnds(arr)), map) THEN FMul(2, mat)
         ELSE IF Over70(NpSum(MidYear(arr)), map) THEN FAdd(FMul(2, mat), 28)
         ELSE FAdd(FMul(2, mat), 14)

\* The winter and summer windows of a hemisphere.
WinterWindow(north, arr) == IF ~north THEN MidYear(arr) ELSE YearEnds(arr)
SummerWindow(north, arr) == IF ~north THEN YearEnds(arr) ELSE MidYear(arr)

\* The second letter of groups C and D.
Seasonality(psmin, psmax, pwmin, pwmax) ==
    IF FLt(psmin, 40) /\ FLt(FMul(3, psmin), pwmax) THEN "s"
    ELSE IF FLt(FMul(10, pwmin), psmax) THEN "w"
    ELSE "f"

\* The third letter of group C; no letter when no branch is taken.
ThirdLetterC(tmax, above10) ==
    IF FGe(tmax, 22) THEN "a"
    ELSE IF above10 >= 4 THEN "b"
    ELSE IF 1 <= above10 /\ above10 < 4 THEN "c"
    ELSE ""

\* The third letter of group D with the last two branches of group C: no
\* letter when no month is above 10.
ThirdLetterDNoFallback(tmax, tmin, above10) ==
    IF FGe(tmax, 22) THEN "a"
    ELSE IF above10 >= 4 THEN "b"
    ELSE IF FLt(tmin, -38) THEN "d"
    ELSE IF 1 <= above10 /\ above10 < 4 THEN "c"
    ELSE ""

\* The third letter of group D.
ThirdLetterD(tmax, tmin, above10) ==
    IF FGe(tmax, 22) THEN "a"
    ELSE IF above10 >= 4 THEN "b"
    ELSE IF FLt(tmin, -38) THEN "d"
    ELSE "c"

\* The letters of group B.
AridLetters(mat, map, pthresh) ==
    (IF FLt(map, FMul(5, pthresh)) THEN "W" ELSE "S")
    \o (IF FGe(mat, 18) THEN "h" ELSE "k")

\* The letter of group A:  p_min >= 60,  p_min >= 100 - m_a_p / 25.
TropicalLetter(pmin, map) ==
    IF FGe(pmin, 60) THEN "f"
    ELSE IF FGe(FMul(25, pmin), FSub(2500, map)) THEN "m"
    ELSE "w"

\* The letters of group E the wrong way round.
PolarLetterSwapped(tmax) == IF FGt(tmax, 0) THEN "F" ELSE "T"

\* The letter of group E.
PolarLetter(tmax) == IF FGt(tmax, 0) THEN "T" ELSE "F"

\* The chain with the test of group A placed before the test of group B.
ClassStringTropicalFirst(mat, map, pmin, tmax, tmin, above10, pthresh, psmin, psmax, pwmin, pwmax) ==
    IF FGe(tmin, 18) THEN "A" \o TropicalLetter(pmin, map)
    ELSE IF FLt(map, FMul(10, pthresh))
    THEN "B" \o AridLetters(mat, map, pthresh)
    ELSE IF FGt(tmax, 10) /\ FLt(0, tmin) /\ FLt(tmin, 18)
    THEN "C" \o Seasonality(psmin, psmax, pwmin, pwmax)
             \o ThirdLetterC(tmax, above10)
    ELSE IF FGt(tmax, 10) /\ FLe(tmin, 0)
    THEN "D" \o Seasonality(psmin, psmax, pwmin, pwmax)
             \o ThirdLetterD(tmax, tmin, above10)
    ELSE IF FLe(tmax, 10) THEN "E" \o PolarLetter(tmax)
    ELSE ""

\* The classification conditionals: the if/elif chain that assembles
\* koppenClass.
ClassString(mat, map, pmin, tmax, tmin, above10, pthresh, psmin, psmax, pwmin, pwmax) ==
    IF FLt(map, FMul(10, pthresh))
    THEN "B" \o AridLetters(mat, map, pthresh)
    ELSE IF FGe(tmin, 18) THEN "A" \o TropicalLetter(pmin, map)
    ELSE IF FGt(tmax, 10) /\ FLt(0, tmin) /\ FLt(tmin, 18)
    THEN "C" \o Seasonality(psmin, psmax, pwmin, pwmax)
             \o ThirdLetterC(tmax, above10)
    ELSE IF FGt(tmax, 10) /\ FLe(tmin, 0)
    THEN "D" \o Seasonality(psmin, psmax, pwmin, pwmax)
             \o ThirdLetterD(tmax, tmin, above10)
    ELSE IF FLe(tmax, 10) THEN "E" \o PolarLetter(tmax)
    ELSE ""

-----------------------------------------------------------------------------
(* The cells the classifier is applied to *)

\* Lengths of the three series: bio 1..19 and the twelve months.
BioCount == 19
MonthCount == 12

\* A year made of four quarters, each with one value for its three months.
Quarters(q1, q2, q3, q4) ==
    [m \in 1..MonthCount |->
        IF m <= 3 THEN q1 ELSE IF m <= 6 THEN q2 ELSE IF m <= 9 THEN q3 ELSE q4]

\* The bio series of a cell: bio1 (annual mean temperature), bio5 (warmest
\* month), bio6 (coldest month), bio12 (annual precipitation), bio14 (driest
\* month) and one value for all the variables the classifier does not read.
BioSeries(b1, b5, b6, b12, b14, rest) ==
    [i \in 1..BioCount |->
        CASE i = 1 -> b1 [] i = 5 -> b5 [] i = 6 -> b6
          [] i = 12 -> b12 [] i = 14 -> b14 [] OTHER -> rest]

MatValues == {-20, 17, 18, 25}
TMaxValues == {-20, 10, 11, 22, 25}
TMinValues == {-39, -20, 0, 1, 18, 25}
AnnualPrecValues == {120, 2400, 18000}
DriestValues == {10, 50, 200}
TempQuarterValues == {-20, 25}
PrecQuarterValues == {10, 200}

CleanBio ==
    {BioSeries(b1, b5, b6, b12, b14, 0) :
        b1 \in MatValues, b5 \in TMaxValues, b6 \in TMinValues,
        b12 \in AnnualPrecValues, b14 \in DriestValues}
CleanTavg ==
    {Quarters(a, b, c, d) : a \in TempQuarterValues, b \in TempQuarterValues,
                            c \in TempQuarterValues, d \in TempQuarterValues}
CleanPrec ==
    {Quarters(a, b, c, d) : a \in PrecQuarterValues, b \in PrecQuarterValues,
                            c \in PrecQuarterValues, d \in PrecQuarterValues}

\* The two cells of the concrete scenarios: a hot wet cell and a frozen dry
\* cell, each with summary values consistent with its monthly series.
HotWetBio == BioSeries(25, 25, 25, 2400, 200, 0)
HotWetTavg == Quarters(25, 25, 25, 25)
HotWetPrec == Quarters(200, 200, 200, 200)
FrozenBio == BioSeries(-20, -20, -20, 120, 10, 0)
FrozenTavg == Quarters(-20, -20, -20, -20)
FrozenPrec == Quarters(10, 10, 10, 10)

\* A series with the element at position i missing.
WithNaN(s, i) == [s EXCEPT ![i] = NaN]

\* Cells with exactly one missing element, at any position of any of the
\* three series of the two scenario cells.
MissingCells ==
    LET base == {<<HotWetBio, HotWetTavg, HotWetPrec>>,
                 <<FrozenBio, FrozenTavg, FrozenPrec>>}
    IN  {<<WithNaN(c[1], i), c[2], c[3]>> : c \in base, i \in 1..BioCount}
        \cup {<<c[1], WithNaN(c[2], i), c[3]>> : c \in base, i \in 1..MonthCount}
        \cup {<<c[1], c[2], WithNaN(c[3], i)>> : c \in base, i \in 1..MonthCount}

NoMissing == ~HasNaN(bioVarSeries) /\ ~HasNaN(tavgSeries) /\ ~HasNaN(precSeries)

-----------------------------------------------------------------------------
(* One call of koppenGeigerClassify *)

BatchIdle ==
    /\ data = <<>> /\ num_chunks = 0 /\ thread_count = 0 /\ chunk_size = 0
    /\ chunks = <<>> /\ executor = "none" /\ classified_data = <<>>
    /\ bpc = "idle" /\ raised = "none"

ChunkIdle == chunk = <<>> /\ rowNo = 0 /\ applied = <<>>

\* A data directory that does not exist.
NoDataPath == [path |-> FALSE, dirs |-> {}, zips |-> {}, corrupt |-> {}]

RegionIdle ==
    /\ resolution = "" /\ message = <<>> /\ fs = NoDataPath /\ fs0 = NoDataPath
    /\ fileNo = 0 /\ ops = <<>> /\ geoData = <<>> /\ classification = <<>>
    /\ rpc = "idle"

Init ==
    /\ \/ /\ bioVarSeries \in CleanBio
          /\ tavgSeries \in CleanTavg
          /\ precSeries \in CleanPrec
       \/ \E c \in MissingCells :
             bioVarSeries = c[1] /\ tavgSeries = c[2] /\ precSeries = c[3]
    /\ north_hemisphere \in BOOLEAN
    /\ m_a_t = 0 /\ m_a_p = 0 /\ p_min = 0
    /\ t_max = 0 /\ t_min = 0 /\ t_above_10 = 0
    /\ p_thresh = 0 /\ p_w_min = 0 /\ p_w_max = 0
    /\ p_s_min = 0 /\ p_s_max = 0
    /\ koppenClass = ""
    /\ pc = "summaries" /\ result = 0
    /\ BatchIdle /\ ChunkIdle /\ RegionIdle

\* The summary values read from the bio series and the count of warm months.
Summaries ==
    /\ pc = "summaries"
    /\ m_a_t' = bioVarSeries[1]
    /\ m_a_p' = FDiv12(bioVarSeries[12])
    /\ p_min' = bioVarSeries[14]
    /\ t_max' = bioVarSeries[5]
    /\ t_min' = bioVarSeries[6]
    /\ t_above_10' = TAbove10(tempArray)
    /\ pc' = "windows"
    /\ UNCHANGED <<cellVars, p_thresh, p_w_min, p_w_max, p_s_min, p_s_max, koppenClass, result, batchVars, chunkVars, regionVars>>

\* The hemisphere branch: the threshold and the window minima and maxima.
Windows ==
    /\ pc = "windows"
    /\ p_thresh' = PThresh(north_hemisphere, precArray, m_a_t, m_a_p)
    /\ p_w_min' = NpMin(WinterWindow(north_hemisphere, precArray))
    /\ p_w_max' = NpMax(WinterWindow(north_hemisphere, precArray))
    /\ p_s_min' = NpMin(SummerWindow(north_hemisphere, precArray))
    /\ p_s_max' = NpMax(SummerWindow(north_hemisphere, precArray))
    /\ pc' = "conditionals"
    /\ UNCHANGED <<cellVars, m_a_t, m_a_p, p_min, t_max, t_min, t_above_10, koppenClass, result, batchVars, chunkVars, regionVars>>

\* The conditionals and the lookup of the assembled string.
Conditionals ==
    /\ pc = "conditionals"
    /\ koppenClass' = ClassString(m_a_t, m_a_p, p_min, t_max, t_min, t_above_10, p_thresh, p_s_min, p_s_max, p_w_min, p_w_max)
    /\ result' = KoppenGet(koppenClass')
    /\ pc' = "done"
    /\ UNCHANGED <<cellVars, m_a_t, m_a_p, p_min, t_max, t_min, t_above_10, p_thresh, p_w_min, p_w_max, p_s_min, p_s_max, batchVars, chunkVars, regionVars>>

Next == Summaries \/ Windows \/ Conditionals

Spec == Init /\ [][Next]_vars

\* The whole function as one operator: the value returned for its arguments.
KoppenGeigerClassify(bio, tavg, prec, north) ==
    LET mat == bio[1]
        map == FDiv12(bio[12])
        pArr == tavg
        tArr == prec
    IN  KoppenGet(ClassString(mat, map, bio[14], bio[5], bio[6], TAbove10(tArr), PThresh(north, pArr, mat, map), NpMin(SummerWindow(north, pArr)), NpMax(SummerWindow(north, pArr)), NpMin(WinterWindow(north, pArr)), NpMax(WinterWindow(north, pArr))))

-----------------------------------------------------------------------------
(* computeChunk *)

\* One row of the table: lat, lon, classification, bio 1..19, tavg 1..12,
\* prec 1..12.
Row(lat, lon, bio, tavg, prec) == <<lat, lon, 0>> \o bio \o tavg \o prec

\* The lambda applied to a row: the slices 3:21, 22:34 and 35:47 of the row
\* and the sign of its first entry.
ClassifyRow(row) ==
    KoppenGeigerClassify(PySlice(row, 3, 21), PySlice(row, 22, 34), PySlice(row, 35, 47), row[1] > 0)

\* chunk.apply(..., axis=1): one code per row, under the row's index label.
ComputeChunk(df) ==
    [i \in DOMAIN df |-> [index |-> df[i].index, code |-> ClassifyRow(df[i].values)]]

-----------------------------------------------------------------------------
(* One call of concurrentClassification *)

MaxRows == 5
MaxChunks == 4
MaxThreads == 2

\* The rows a table is made of: the hot wet cell north of the equator and
\* the frozen dry cell south of it.
RowKinds ==
    {Row(10, 20, HotWetBio, HotWetTavg, HotWetPrec),
     Row(-10, 20, FrozenBio, FrozenTavg, FrozenPrec)}

\* A data frame of n rows under the index labels 0..n-1.
Tables ==
    UNION {{[i \in 1..n |-> [index |-> i - 1, values |-> f[i]]] :
               f \in [1..n -> RowKinds]} : n \in 0..MaxRows}

\* a // b
PyFloorDiv(a, b) == IF b > 0 THEN a \div b ELSE (-a) \div (-b)

\* list(range(0, stop, step)) for a step other than zero
RECURSIVE PyRange(_, _, _)
PyRange(start, stop, step) ==
    IF (step > 0 /\ start < stop) \/ (step < 0 /\ start > stop)
    THEN <<start>> \o PyRange(start + step, stop, step)
    ELSE <<>>

\* data.iloc[i:j] for 0 <= i <= j
ILoc(df, i, j) == PySlice(df, i, j)

\* Slices starting at every chunk_size-th row, one more than num_chunks
\* when the rows do not divide evenly.
ChunkList(df, size) ==
    LET starts == PyRange(0, Len(df), size)
    IN  [k \in DOMAIN starts |-> ILoc(df, starts[k], starts[k] + size)]

ClassifyIdle ==
    /\ bioVarSeries = <<>> /\ tavgSeries = <<>> /\ precSeries = <<>>
    /\ north_hemisphere = FALSE
    /\ m_a_t = 0 /\ m_a_p = 0 /\ p_min = 0
    /\ t_max = 0 /\ t_min = 0 /\ t_above_10 = 0
    /\ p_thresh = 0 /\ p_w_min = 0 /\ p_w_max = 0
    /\ p_s_min = 0 /\ p_s_max = 0
    /\ koppenClass = ""
    /\ pc = "idle" /\ result = 0

BatchInit ==
    /\ ClassifyIdle /\ ChunkIdle /\ RegionIdle
    /\ data \in Tables
    /\ num_chunks \in (-1)..MaxChunks
    /\ thread_count \in (-1)..MaxThreads
    /\ chunk_size = 0 /\ chunks = <<>>
    /\ executor = "none" /\ classified_data = <<>>
    /\ bpc = "chunk_size" /\ raised = "none"

\* chunk_size = data.shape[0] // num_chunks
ChunkSize ==
    /\ bpc = "chunk_size"
    /\ IF num_chunks = 0
       THEN /\ raised' = "ZeroDivisionError" /\ bpc' = "raised"
            /\ UNCHANGED chunk_size
       ELSE /\ chunk_size' = PyFloorDiv(Len(data), num_chunks)
            /\ bpc' = "chunks"
            /\ UNCHANGED raised
    /\ UNCHANGED <<classifyVars, chunkVars, regionVars, data, num_chunks, thread_count, chunks, executor, classified_data>>

\* chunks = [data.iloc[i:i + chunk_size] for i in range(0, n, chunk_size)]
BuildChunks ==
    /\ bpc = "chunks"
    /\ IF chunk_size = 0
       THEN /\ raised' = "ValueError" /\ bpc' = "raised"
            /\ UNCHANGED chunks
       ELSE /\ chunks' = ChunkList(data, chunk_size)
            /\ bpc' = "executor"
            /\ UNCHANGED raised
    /\ UNCHANGED <<classifyVars, chunkVars, regionVars, data, num_chunks, thread_count, chunk_size, executor, classified_data>>

\* with ThreadPoolExecutor(max_workers=thread_count) as executor
CreateExecutor ==
    /\ bpc = "executor"
    /\ IF thread_count <= 0
       THEN /\ raised' = "ValueError" /\ bpc' = "raised"
            /\ UNCHANGED executor
       ELSE /\ executor' = "open"
            /\ bpc' = "map"
            /\ UNCHANGED raised
    /\ UNCHANGED <<classifyVars, chunkVars, regionVars, data, num_chunks, thread_count, chunk_size, chunks, classified_data>>

\* executor.map(classify_chunk, chunks): the module binds no name
\* classify_chunk (the function it defines is computeChunk), so evaluating
\* the argument raises NameError before anything is submitted.
MapChunks ==
    /\ bpc = "map"
    /\ raised' = "NameError"
    /\ bpc' = "exit"
    /\ UNCHANGED <<classifyVars, chunkVars, regionVars, data, num_chunks, thread_count, chunk_size, chunks, executor, classified_data>>

\* Leaving the with block with the exception swallowed: the call returns
\* what has been collected.
ExitWithSwallowed ==
    /\ bpc = "exit"
    /\ executor' = "shutdown"
    /\ bpc' = "returned"
    /\ UNCHANGED <<classifyVars, chunkVars, regionVars, data, num_chunks, thread_count, chunk_size, chunks, classified_data, raised>>

\* Leaving the with block: the executor is shut down and the exception
\* goes on to the caller.  The statements after the block, pd.concat and
\* return, are never reached.
ExitWith ==
    /\ bpc = "exit"
    /\ executor' = "shutdown"
    /\ bpc' = "raised"
    /\ UNCHANGED <<classifyVars, chunkVars, regionVars, data, num_chunks, thread_count, chunk_size, chunks, classified_data, raised>>

BatchNext == ChunkSize \/ BuildChunks \/ CreateExecutor \/ MapChunks \/ ExitWith

BatchSpec == BatchInit /\ [][BatchNext]_vars

-----------------------------------------------------------------------------
(* One call of computeChunk *)

MaxChunkRows == 2

\* The rows of a chunk: the two scenario cells north of the equator, on it
\* and south of it.
ChunkRowKinds ==
    {Row(lat, 20, HotWetBio, HotWetTavg, HotWetPrec) : lat \in {-10, 0, 10}}
    \cup {Row(lat, 20, FrozenBio, FrozenTavg, FrozenPrec) : lat \in {-10, 0, 10}}

\* The chunks: one to MaxChunkRows rows under consecutive index labels.
ChunkInputs ==
    UNION {{[i \in 1..n |-> [index |-> i - 1, values |-> f[i]]] :
               f \in [1..n -> ChunkRowKinds]} : n \in 1..MaxChunkRows}

\* The four arguments the lambda hands to koppenGeigerClassify for a row.
RowArguments(row) ==
    <<PySlice(row, 3, 21), PySlice(row, 22, 34), PySlice(row, 35, 47), row[1] > 0>>

ChunkInit ==
    /\ ClassifyIdle /\ BatchIdle /\ RegionIdle
    /\ chunk \in ChunkInputs
    /\ rowNo = 1 /\ applied = <<>>

\* chunk.apply(lambda row: ..., axis=1) reaches the next row and calls
\* koppenGeigerClassify on the slices of that row.
ApplyRow ==
    /\ pc \in {"idle", "apply"}
    /\ rowNo \in DOMAIN chunk
    /\ LET args == RowArguments(chunk[rowNo].values)
       IN  /\ bioVarSeries' = args[1]
           /\ tavgSeries' = args[2]
           /\ precSeries' = args[3]
           /\ north_hemisphere' = args[4]
    /\ m_a_t' = 0 /\ m_a_p' = 0 /\ p_min' = 0
    /\ t_max' = 0 /\ t_min' = 0 /\ t_above_10' = 0
    /\ p_thresh' = 0 /\ p_w_min' = 0 /\ p_w_max' = 0
    /\ p_s_min' = 0 /\ p_s_max' = 0
    /\ koppenClass' = ""
    /\ pc' = "summaries"
    /\ UNCHANGED <<result, chunkVars, batchVars, regionVars>>

\* The value koppenGeigerClassify returned becomes the entry of the row in
\* the resulting series; after the last row the series is returned.
CollectCode ==
    /\ pc = "done"
    /\ rowNo \in DOMAIN chunk
    /\ applied' = Append(applied, [index |-> chunk[rowNo].index, code |-> result])
    /\ rowNo' = rowNo + 1
    /\ pc' = IF rowNo = Len(chunk) THEN "returned" ELSE "apply"
    /\ UNCHANGED <<cellVars, localVars, result, chunk, batchVars, regionVars>>

ChunkNext == ApplyRow \/ Summaries \/ Windows \/ Conditionals \/ CollectCode

ChunkSpec == ChunkInit /\ [][ChunkNext]_vars

-----------------------------------------------------------------------------
(* One call of computeRegionalClassification *)

\* The resolutions of the WorldClim data, by their description.
RESOLUTIONS ==
    ("30 seconds" :> "30s") @@ ("2.5 minutes" :> "2.5m") @@
    ("5 minutes" :> "5m") @@ ("10 minutes" :> "10m")

\* RESOLUTIONS.values()
ResolutionValues == {RESOLUTIONS[k] : k \in DOMAIN RESOLUTIONS}

\* The resolutions the docstring of computeRegionalClassification lists as
\* the ones the argument must be one of.
DocumentedResolutions == {"2.5m", "5m", "10m", "30m"}

\* resolution in RESOLUTIONS.values()
IsValidResolution(res) == res \in ResolutionValues

REQUIRED_VARS == <<"bio", "tavg", "prec">>
CHUNKS == 100
NUM_THREADS == 3

\* The resolution argument: the values, the 30m of the docstring, and a
\* description instead of its value.
ResolutionInputs == ResolutionValues \cup {"30m", "30 seconds"}

\* The states of the data directory at the call.  For every required
\* variable the extracted directory is there or not, and the archive is
\* absent, a WorldClim archive, or an unreadable file (a broken download).
\* A data directory that does not exist holds nothing.
DataDirStates ==
    LET files == {REQUIRED_VARS[i] : i \in DOMAIN REQUIRED_VARS}
    IN  {NoDataPath} \cup
        {st \in [path : {TRUE}, dirs : SUBSET files, zips : SUBSET files, corrupt : SUBSET files] :
            st.corrupt \subseteq st.zips}

\* The cell size of a resolution, in 1/1200 of a degree.
CellSize(res) ==
    CASE res = "30s" -> 10
      [] res = "2.5m" -> 50
      [] res = "5m" -> 100
      [] res = "10m" -> 200

\* np.round(v, 2) of a coordinate v given in 1/1200 of a degree: the
\* nearest hundredth of a degree, halves to the even neighbour.
Round2(u) ==
    LET q == u \div 12
        r == u % 12
    IN  IF r < 6 THEN q
        ELSE IF r > 6 THEN q + 1
        ELSE IF q % 2 = 0 THEN q ELSE q + 1

\* The rasters of the extracted directories: their shape and the origin of
\* their transform, in 1/1200 of a degree.  All rasters of a resolution
\* have the same shape and transform.
Rasters ==
    {[h |-> 2, w |-> 2, yoff |-> 100, xoff |-> -100],
     [h |-> 10, w |-> 10, yoff |-> 1000, xoff |-> -1000]}

\* The values of the cell in row r and column c of the rasters: hot wet
\* cells and frozen dry cells in a chequered pattern.
CellValues(r, c) ==
    IF (r + c) % 2 = 0
    THEN <<HotWetBio, HotWetTavg, HotWetPrec>>
    ELSE <<FrozenBio, FrozenTavg, FrozenPrec>>

\* readGeoData on the rasters: the rounded latitudes as index, the rounded
\* longitudes as columns, in hundredths of a degree, and the cell values.
ReadGeoData(raster, res) ==
    [index |-> [r \in 1..raster.h |-> Round2(raster.yoff - (r - 1) * CellSize(res))],
     columns |-> [c \in 1..raster.w |-> Round2(raster.xoff + (c - 1) * CellSize(res))],
     values |-> [r \in 1..raster.h |-> [c \in 1..raster.w |-> CellValues(r, c)]]]

\* The data frame of lines 211-221: one row per cell in row-major order,
\* lat repeated along a raster row, lon tiled, classification 0.
Flatten(geo) ==
    LET h == Len(geo.index)
        w == Len(geo.columns)
    IN  [i \in 1..(h * w) |->
            LET r == ((i - 1) \div w) + 1
                c == ((i - 1) % w) + 1
                v == geo.values[r][c]
            IN  [index |-> i - 1,
                 values |-> Row(geo.index[r], geo.columns[c], v[1], v[2], v[3])]]

RegionalInit ==
    /\ ClassifyIdle /\ BatchIdle /\ ChunkIdle
    /\ resolution \in ResolutionInputs
    /\ message = <<>>
    /\ fs \in DataDirStates
    /\ fs0 = fs
    /\ fileNo = 0 /\ ops = <<>> /\ geoData = <<>> /\ classification = <<>>
    /\ rpc = "validate"

\* The validation of the resolution.
Validate ==
    /\ rpc = "validate"
    /\ IF IsValidResolution(resolution)
       THEN /\ rpc' = "makedirs"
            /\ UNCHANGED <<message, raised>>
       ELSE /\ raised' = "ValueError"
            /\ message' = [text |-> "Invalid resolution", resolution |-> resolution, valid |-> ResolutionValues]
            /\ rpc' = "raised"
    /\ UNCHANGED <<classifyVars, chunkVars, resolution, fs, fs0, fileNo, ops, geoData, classification>>
    /\ UNCHANGED <<data, num_chunks, thread_count, chunk_size, chunks, executor, classified_data, bpc>>

\* downloadRequiredFiles is entered: the data directory is created when it
\* is missing, and the loop starts at the first file.
MakeDataDir ==
    /\ rpc = "makedirs"
    /\ fs' = [fs EXCEPT !.path = TRUE]
    /\ fileNo' = 1
    /\ rpc' = "isdir"
    /\ UNCHANGED <<classifyVars, chunkVars, batchVars, resolution, message, fs0, ops, geoData, classification>>

\* if not os.path.isdir(f"{dataPath}/{file}_{resolution}")
CheckDirectory ==
    /\ rpc = "isdir"
    /\ rpc' = IF REQUIRED_VARS[fileNo] \in fs.dirs THEN "found" ELSE "isfile"
    /\ UNCHANGED <<classifyVars, chunkVars, batchVars, resolution, message, fs, fs0, fileNo, ops, geoData, classification>>

\* if not os.path.isfile(f"{dataPath}/{file}_{resolution}.zip")
CheckZip ==
    /\ rpc = "isfile"
    /\ rpc' = IF REQUIRED_VARS[fileNo] \in fs.zips THEN "extract" ELSE "download"
    /\ UNCHANGED <<classifyVars, chunkVars, batchVars, resolution, message, fs, fs0, fileNo, ops, geoData, classification>>

\* downloadData: nothing when the archive exists; else the request, which
\* fails with an exception or is answered with the archive that is then
\* written.
DownloadData ==
    /\ rpc = "download"
    /\ LET file == REQUIRED_VARS[fileNo]
       IN  IF file \in fs.zips
           THEN /\ rpc' = "extract"
                /\ UNCHANGED <<fs, ops, raised>>
           ELSE \/ /\ fs' = [fs EXCEPT !.zips = @ \cup {file}]
                   /\ ops' = Append(ops, [op |-> "download", file |-> file])
                   /\ rpc' = "extract"
                   /\ UNCHANGED raised
                \/ /\ raised' = "RequestException"
                   /\ rpc' = "raised"
                   /\ UNCHANGED <<fs, ops>>
    /\ UNCHANGED <<classifyVars, chunkVars, resolution, message, fs0, fileNo, geoData, classification>>
    /\ UNCHANGED <<data, num_chunks, thread_count, chunk_size, chunks, executor, classified_data, bpc>>

\* extractData without the test that guards it in downloadRequiredFiles:
\* the archive is extracted whether or not the directory exists.
ExtractDataAlways ==
    /\ rpc \in {"extract", "found"}
    /\ fileNo \in DOMAIN REQUIRED_VARS
    /\ REQUIRED_VARS[fileNo] \in fs.zips \ fs.corrupt
    /\ ~(\E i \in DOMAIN ops : ops[i] = [op |-> "extract", file |-> REQUIRED_VARS[fileNo]])
    /\ fs' = [fs EXCEPT !.dirs = @ \cup {REQUIRED_VARS[fileNo]}]
    /\ ops' = Append(ops, [op |-> "extract", file |-> REQUIRED_VARS[fileNo]])
    /\ rpc' = "found"
    /\ UNCHANGED <<classifyVars, chunkVars, batchVars, resolution, message, fs0, fileNo, geoData, classification>>

\* extractData: the archive is opened and extracted into the directory; a
\* file that is not an archive raises.
ExtractData ==
    /\ rpc = "extract"
    /\ LET file == REQUIRED_VARS[fileNo]
       IN  IF file \in fs.corrupt
           THEN /\ raised' = "BadZipFile"
                /\ rpc' = "raised"
                /\ UNCHANGED <<fs, ops>>
           ELSE /\ fs' = [fs EXCEPT !.dirs = @ \cup {file}]
                /\ ops' = Append(ops, [op |-> "extract", file |-> file])
                /\ rpc' = "found"
                /\ UNCHANGED raised
    /\ UNCHANGED <<classifyVars, chunkVars, resolution, message, fs0, fileNo, geoData, classification>>
    /\ UNCHANGED <<data, num_chunks, thread_count, chunk_size, chunks, executor, classified_data, bpc>>

\* The end of one pass of the loop: the next file, or the return of
\* downloadRequiredFiles after the last one.
DirectoryFound ==
    /\ rpc = "found"
    /\ IF fileNo < Len(REQUIRED_VARS)
       THEN fileNo' = fileNo + 1 /\ rpc' = "isdir"
       ELSE fileNo' = fileNo /\ rpc' = "read"
    /\ UNCHANGED <<classifyVars, chunkVars, batchVars, resolution, message, fs, fs0, ops, geoData, classification>>

\* readGeodataDirs: the rasters of the three directories.
ReadGeodataDirs ==
    /\ rpc = "read"
    /\ \E raster \in Rasters : geoData' = ReadGeoData(raster, resolution)
    /\ rpc' = "flatten"
    /\ UNCHANGED <<classifyVars, chunkVars, batchVars, resolution, message, fs, fs0, fileNo, ops, classification>>

\* The data frame is built and concurrentClassification is called on it.
CallClassification ==
    /\ rpc = "flatten"
    /\ data' = Flatten(geoData)
    /\ num_chunks' = CHUNKS
    /\ thread_count' = NUM_THREADS
    /\ bpc' = "chunk_size"
    /\ rpc' = "classify"
    /\ UNCHANGED <<classifyVars, chunkVars, resolution, message, fs, fs0, fileNo, ops, geoData, classification>>
    /\ UNCHANGED <<chunk_size, chunks, executor, classified_data, raised>>

\* The exception of concurrentClassification goes on to the caller of
\* computeRegionalClassification.
ClassificationRaised ==
    /\ rpc = "classify"
    /\ bpc = "raised"
    /\ rpc' = "raised"
    /\ UNCHANGED <<classifyVars, chunkVars, batchVars, resolution, message, fs, fs0, fileNo, ops, geoData, classification>>

RegionalNext ==
    \/ Validate \/ MakeDataDir \/ CheckDirectory \/ CheckZip
    \/ DownloadData \/ ExtractData \/ DirectoryFound
    \/ ReadGeodataDirs \/ CallClassification
    \/ ChunkSize \/ BuildChunks \/ CreateExecutor \/ MapChunks \/ ExitWith
    \/ ClassificationRaised

RegionalSpec == RegionalInit /\ [][RegionalNext]_vars

-----------------------------------------------------------------------------
(* The end of computeRegionalClassification: pivot, row reversal, return *)

MaxCells == 4

\* The tables the pivot is applied to: one to MaxCells rows of a latitude,
\* a longitude and a code, complete rectangles as well as tables with a
\* missing or a repeated pair of coordinates.
ClassifiedTables ==
    LET rows == [lat : {-10, 10}, lon : {20, 30}, classification : {1, 30}]
    IN  UNION {[1..n -> rows] : n \in 1..MaxCells}

\* The elements of a set of numbers in ascending order.
RECURSIVE Ascending(_)
Ascending(S) ==
    IF S = {} THEN <<>>
    ELSE LET least == CHOOSE x \in S : \A y \in S : x <= y
         IN  <<least>> \o Ascending(S \ {least})

\* Two rows of the table have the same latitude and longitude.
HasDuplicates(table) ==
    \E i, j \in DOMAIN table :
        i # j /\ table[i].lat = table[j].lat /\ table[i].lon = table[j].lon

\* table.pivot(index="lat", columns="lon", values="classification") of a
\* table without duplicates: rows and columns under the ascending distinct
\* latitudes and longitudes, NaN where the table has no row for a pair.
PivotTable(table) ==
    LET index == Ascending({table[i].lat : i \in DOMAIN table})
        columns == Ascending({table[i].lon : i \in DOMAIN table})
    IN  [index |-> index,
         columns |-> columns,
         values |-> [r \in DOMAIN index |-> [c \in DOMAIN columns |->
            IF \E i \in DOMAIN table : table[i].lat = index[r] /\ table[i].lon = columns[c]
            THEN table[CHOOSE i \in DOMAIN table : table[i].lat = index[r] /\ table[i].lon = columns[c]].classification
            ELSE NaN]]]

\* s[::-1]
Reversed(s) == [i \in DOMAIN s |-> s[Len(s) + 1 - i]]

AssembleInit ==
    /\ ClassifyIdle /\ ChunkIdle
    /\ data = <<>> /\ num_chunks = 0 /\ thread_count = 0 /\ chunk_size = 0
    /\ chunks = <<>> /\ executor = "none" /\ raised = "none"
    /\ classified_data \in ClassifiedTables
    /\ bpc = "returned"
    /\ resolution = "" /\ message = <<>> /\ fs = NoDataPath /\ fs0 = NoDataPath
    /\ fileNo = 0 /\ ops = <<>> /\ geoData = <<>>
    /\ classification = classified_data
    /\ rpc = "pivot"

\* classification = classification.pivot(...): pandas raises ValueError
\* for a repeated pair of index and column and reshapes everything else.
Pivot ==
    /\ rpc = "pivot"
    /\ IF HasDuplicates(classification)
       THEN /\ raised' = "ValueError"
            /\ rpc' = "raised"
            /\ UNCHANGED classification
       ELSE /\ classification' = PivotTable(classification)
            /\ rpc' = "reverse"
            /\ UNCHANGED raised
    /\ UNCHANGED <<classifyVars, chunkVars, resolution, message, fs, fs0, fileNo, ops, geoData>>
    /\ UNCHANGED <<data, num_chunks, thread_count, chunk_size, chunks, executor, classified_data, bpc>>

\* classification = classification.iloc[::-1], and the return.
ReverseRows ==
    /\ rpc = "reverse"
    /\ classification' = [classification EXCEPT !.index = Reversed(@), !.values = Reversed(@)]
    /\ rpc' = "returned"
    /\ UNCHANGED <<classifyVars, chunkVars, batchVars, resolution, message, fs, fs0, fileNo, ops, geoData>>

AssembleNext == Pivot \/ ReverseRows

AssembleSpec == AssembleInit /\ [][AssembleNext]_vars

-----------------------------------------------------------------------------
(* Properties of koppenGeigerClassify, checked under Spec *)

Returned == pc = "done"

IsHotWet == bioVarSeries = HotWetBio /\ tavgSeries = HotWetTavg /\ precSeries = HotWetPrec
IsFrozen == bioVarSeries = FrozenBio /\ tavgSeries = FrozenTavg /\ precSeries = FrozenPrec

\* The strings of each main group, with or without a third letter.
GroupA == {"A" \o l : l \in {"f", "m", "w"}}
GroupB == {"B" \o l \o t : l \in {"W", "S"}, t \in {"h", "k"}}
GroupC == {"C" \o l \o t : l \in {"s", "w", "f"}, t \in {"", "a", "b", "c"}}
GroupD == {"D" \o l \o t : l \in {"s", "w", "f"}, t \in {"a", "b", "c", "d"}}
GroupE == {"E" \o l : l \in {"T", "F"}}

\* The strings of groups C and D whose second letter is l.
WithSecondLetter(l) == {g \o l \o t : g \in {"C", "D"}, t \in {"", "a", "b", "c", "d"}}

\* C1: whenever an element of the bio series, of the monthly temperatures or
\* of the monthly precipitations is missing (NaN), the returned code is 0,
\* in both hemispheres.
C1_MissingGivesZero == (Returned /\ ~NoMissing) => result = 0

\* C2: the Northern-Hemisphere cell with 25 degrees and 200 mm in every
\* month is given the code of "Af".
C2_HotWetIsAf == (Returned /\ IsHotWet /\ north_hemisphere) => result = KOPPEN_DICT["Af"]

\* C3: the cell with -20 degrees and 10 mm in every month is given the code
\* of "EF", in both hemispheres.
C3_FrozenIsEF == (Returned /\ IsFrozen) => (koppenClass = "EF" /\ result = KOPPEN_DICT["EF"])

C3_Witness == Returned /\ IsFrozen /\ ~north_hemisphere /\ result = 30

\* C4: for a cell without missing values the returned code is an integer in
\* 0..31: 0 or a code of the table.
C4_CodeInRange ==
    (Returned /\ NoMissing) =>
        /\ result \in 0..31
        /\ result = 0 \/ \E k \in DOMAIN KOPPEN_DICT : KOPPEN_DICT[k] = result

C4_Witness == Returned /\ NoMissing /\ koppenClass = "Cf" /\ result = 0

\* The threshold as C5 states it: the precipitation sums of the summer and
\* winter months against 70% of the annual precipitation (bio12), summer
\* first.
StatedPThresh ==
    LET annual == bioVarSeries[12]
        summer == SumInts(SummerWindow(north_hemisphere, precSeries))
        winter == SumInts(WinterWindow(north_hemisphere, precSeries))
        mat == bioVarSeries[1]
    IN  IF 10 * summer > 7 * annual THEN 2 * mat + 28
        ELSE IF 10 * winter > 7 * annual THEN 2 * mat
        ELSE 2 * mat + 14

\* C5: p_thresh is 2*mat + 28 when the summer precipitation exceeds 70% of
\* the annual precipitation, else 2*mat when the winter precipitation does,
\* else 2*mat + 14.
C5_PThreshByPrecipitation ==
    (pc \in {"conditionals", "done"} /\ NoMissing) => p_thresh = StatedPThresh

\* C6: the main group is chosen in priority order B, A, C, D, E on m_a_p,
\* p_thresh, t_min and t_max; within B the second letter is W iff
\* m_a_p < 5 * p_thresh and the third letter is h iff m_a_t >= 18.
C6_GroupPriority ==
    (Returned /\ NoMissing) =>
        LET arid == m_a_p < 10 * p_thresh
            tropical == ~arid /\ t_min >= 18
            temperate == ~arid /\ ~tropical /\ t_max > 10 /\ 0 < t_min /\ t_min < 18
            continental == ~arid /\ ~tropical /\ ~temperate /\ t_max > 10 /\ t_min <= 0
            polar == ~arid /\ ~tropical /\ ~temperate /\ ~continental /\ t_max <= 10
        IN  /\ arid => koppenClass \in GroupB
            /\ tropical => koppenClass \in GroupA
            /\ temperate => koppenClass \in GroupC
            /\ continental => koppenClass \in GroupD
            /\ polar => koppenClass \in GroupE
            /\ arid => (koppenClass \in {"BWh", "BWk"} <=> m_a_p < 5 * p_thresh)
            /\ arid => (koppenClass \in {"BWh", "BSh"} <=> m_a_t >= 18)

C6_Witness ==
    /\ Returned /\ NoMissing
    /\ m_a_p < 10 * p_thresh /\ t_min >= 18 /\ m_a_t = 18
    /\ koppenClass = "BSh"

\* The second letter as C7 states it: from the minimum and maximum of the
\* monthly precipitation over the summer and the winter months.
StatedSeasonality ==
    LET psmin == NpMin(SummerWindow(north_hemisphere, precSeries))
        psmax == NpMax(SummerWindow(north_hemisphere, precSeries))
        pwmin == NpMin(WinterWindow(north_hemisphere, precSeries))
        pwmax == NpMax(WinterWindow(north_hemisphere, precSeries))
    IN  IF psmin < 40 /\ 3 * psmin < pwmax THEN "s"
        ELSE IF 10 * pwmin < psmax THEN "w"
        ELSE "f"

\* C7: in groups C and D the second letter is "s", "w" or "f" by the rule
\* applied to the summer and winter minima and maxima of the monthly
\* precipitation.
C7_SeasonalityByPrecipitation ==
    (Returned /\ NoMissing /\ koppenClass \in GroupC \cup GroupD) =>
        koppenClass \in WithSecondLetter(StatedSeasonality)

\* C8: t_above_10 is the number of monthly temperatures above 10.
C8_WarmMonthCount ==
    (pc \in {"windows", "conditionals", "done"} /\ NoMissing) =>
        t_above_10 = Cardinality({i \in DOMAIN tavgSeries : tavgSeries[i] > 10})

\* A monthly series rotated by six months: the value of month m stands at
\* month m + 6 modulo 12.
Rot6(s) == [m \in DOMAIN s |-> s[((m + 5) % 12) + 1]]

\* C20: for the same bio series, the Southern-Hemisphere code of two
\* monthly series is the Northern-Hemisphere code of the two series rotated
\* by six months.
C20_HemisphereSymmetry ==
    (Returned /\ ~north_hemisphere) =>
        result = KoppenGeigerClassify(bioVarSeries, Rot6(tavgSeries), Rot6(precSeries), TRUE)

C20_Witness ==
    /\ Returned /\ ~north_hemisphere /\ NoMissing
    /\ Rot6(tavgSeries) # tavgSeries /\ Rot6(precSeries) # precSeries
    /\ result # KoppenGeigerClassify(bioVarSeries, tavgSeries, precSeries, TRUE)
    /\ result # 0

\* The strings of group C that lack the third letter.
IncompleteC == {"Cs", "Cw", "Cf"}

\* C21: for a cell without missing values exactly one of the groups B, A,
\* C, D, E is selected; the returned code is 0 exactly when the assembled
\* string is a two-letter string of group C, which happens only with
\* t_max < 22 and t_above_10 = 0; every other such cell gets a positive
\* code.
C21_ExhaustiveTree ==
    (Returned /\ NoMissing) =>
        /\ Cardinality({g \in {GroupA, GroupB, GroupC, GroupD, GroupE} : koppenClass \in g}) = 1
        /\ result = 0 <=> koppenClass \in IncompleteC
        /\ koppenClass \in IncompleteC => (t_max < 22 /\ t_above_10 = 0)
        /\ result # 0 => (result > 0 /\ koppenClass \in DOMAIN KOPPEN_DICT)

C21_Witness ==
    /\ Returned /\ NoMissing
    /\ koppenClass = "Cs" /\ result = 0
    /\ t_max > 10 /\ t_max < 22 /\ t_above_10 = 0

-----------------------------------------------------------------------------
(* Properties of concurrentClassification, checked under BatchSpec *)

Finished == bpc \in {"returned", "raised"}

C10_ExactlyNumChunks ==
    (bpc \in {"executor", "map", "exit"} /\ Len(data) >= num_chunks /\ num_chunks >= 1) =>
        /\ Len(chunks) = num_chunks
        /\ \A k \in 1..(Len(chunks) - 1) : Len(chunks[k]) = Len(chunks[1])
        /\ \A k \in DOMAIN chunks : Len(chunks[k]) <= Len(chunks[1])

\* pd.concat of the classified chunks, in the order of the chunks.
RECURSIVE Concat(_)
Concat(frames) ==
    IF frames = <<>> THEN <<>> ELSE Head(frames) \o Concat(Tail(frames))

\* The output as C11 states it: determined by the table and the chunk
\* count alone.
StatedOutput(df, n) ==
    LET cs == ChunkList(df, PyFloorDiv(Len(df), n))
    IN  Concat([k \in DOMAIN cs |-> ComputeChunk(cs[k])])

C14_RejectedBeforeWork ==
    (bpc # "idle" /\ (num_chunks <= 0 \/ thread_count <= 0)) =>
        /\ chunks = <<>>
        /\ executor = "none"
        /\ classified_data = <<>>
        /\ Finished => bpc = "raised"

-----------------------------------------------------------------------------
(* Properties of computeChunk, checked under ChunkSpec *)

\* C18: for every row koppenGeigerClassify is called with all 19 bio
\* values, all 12 monthly temperatures and all 12 monthly precipitations of
\* the row, each as the argument of its name, and with the northern flag
\* set exactly when the latitude of the row is positive.
C18_WholeSeriesPassed ==
    (rowNo \in DOMAIN chunk /\ pc \in {"summaries", "windows", "conditionals", "done"}) =>
        LET row == chunk[rowNo].values
        IN  /\ bioVarSeries = PySlice(row, 3, 3 + BioCount)
            /\ tavgSeries = PySlice(row, 3 + BioCount, 3 + BioCount + MonthCount)
            /\ precSeries = PySlice(row, 3 + BioCount + MonthCount, 3 + BioCount + 2 * MonthCount)
            /\ north_hemisphere = (row[1] > 0)

-----------------------------------------------------------------------------
(* Properties of computeRegionalClassification, checked under RegionalSpec *)

\* The call has ended.
RunEnded == rpc \in {"returned", "raised"}

\* downloadRequiredFiles has returned to computeRegionalClassification.
DownloadReturned == rpc \in {"read", "flatten", "classify"} \/ (rpc = "raised" /\ bpc # "idle")

\* The call was ended by the validation of the resolution, before any
\* download, extraction, read of a raster or classification.
RejectedBeforeWork ==
    /\ rpc = "raised" /\ raised = "ValueError"
    /\ message # <<>>
    /\ message.resolution = resolution
    /\ message.valid = ResolutionValues
    /\ fs = fs0 /\ ops = <<>> /\ fileNo = 0
    /\ geoData = <<>> /\ classification = <<>>
    /\ bpc = "idle" /\ pc = "idle"

\* The validation as the code makes it: against the values of RESOLUTIONS.
ValidatedAgainstValues ==
    rpc \notin {"idle", "validate"} =>
        IF resolution \in ResolutionValues THEN message = <<>> ELSE RejectedBeforeWork

\* C13: the resolution is accepted exactly when it is one of the four
\* resolutions the function documents as supported; any other resolution
\* ends the call with a ValueError naming the valid resolutions, raised
\* before any download, extraction, read of a raster or classification.
C13_ResolutionValidatedFirst ==
    /\ Cardinality(DocumentedResolutions) = 4
    /\ rpc \notin {"idle", "validate"} =>
          IF resolution \in DocumentedResolutions
          THEN message = <<>>
          ELSE RejectedBeforeWork

DistinctCoordinates ==
    /\ geoData # <<>>
    /\ \A r1, r2 \in DOMAIN geoData.index : r1 < r2 => geoData.index[r1] > geoData.index[r2]
    /\ \A c1, c2 \in DOMAIN geoData.columns : c1 # c2 => geoData.columns[c1] # geoData.columns[c2]

\* C15: for a grid with rows ordered north to south and distinct
\* coordinates, the call returns a grid of the same shape, rows and columns
\* under the same latitudes and longitudes in the same order, in which
\* cell (r, c) holds the code of the input cell (r, c).
C15_GridComesBackInPlace ==
    (RunEnded /\ bpc # "idle" /\ Len(data) >= num_chunks /\ DistinctCoordinates) =>
        /\ rpc = "returned"
        /\ classification =
              [index |-> geoData.index,
               columns |-> geoData.columns,
               values |-> [r \in DOMAIN geoData.index |-> [c \in DOMAIN geoData.columns |->
                              ClassifyRow(Flatten(geoData)[(r - 1) * Len(geoData.columns) + c].values)]]]

\* C19: every row of the data frame starts with classification 0, and the
\* table that concurrentClassification hands back for the pivot holds for
\* every row its lat and lon unchanged and its computed code.
C19_ClassifiedTableReachesPivot ==
    (RunEnded /\ bpc # "idle" /\ Len(data) >= num_chunks) =>
        /\ \A i \in DOMAIN data : data[i].values[3] = 0
        /\ bpc = "returned"
        /\ Len(classified_data) = Len(data)
        /\ \A i \in DOMAIN data :
              /\ classified_data[i].lat = data[i].values[1]
              /\ classified_data[i].lon = data[i].values[2]
              /\ classified_data[i].classification = ClassifyRow(data[i].values)

-----------------------------------------------------------------------------
(* Properties of the pivot and the row reversal, checked under AssembleSpec *)

\* The table holds every pair of one of its latitudes and one of its
\* longitudes exactly once.
IsCompleteRectangle(table) ==
    /\ ~HasDuplicates(table)
    /\ \A i, j \in DOMAIN table :
          \E k \in DOMAIN table : table[k].lat = table[i].lat /\ table[k].lon = table[j].lon

====
